---- MODULE Spec2Model ----
(***************************************************************************)
(* Model of crates/uv-build/src/error.rs: the classification of a failed   *)
(* build backend's captured output (Error::from_command_output), the six   *)
(* failure signatures it matches stderr against, the rendering of the      *)
(* resulting Error and of its MissingHeaderCause.                          *)
(*                                                                         *)
(* Text is modelled as TLA+ strings (Len, \o and SubSeq act on them), so   *)
(* the signatures are matched and the templates rendered character by      *)
(* character.                                                              *)
(***************************************************************************)
EXTENDS Integers, Sequences, FiniteSets, TLC

(***************************************************************************)
(* Characters and character classes                                        *)
(***************************************************************************)

CharAt(s, i) == SubSeq(s, i, i)

\* \d of the regex crate, restricted to the ASCII digits.
DigitChars == {"0", "1", "2", "3", "4", "5", "6", "7", "8", "9"}

LowerChars == {"a", "b", "c", "d", "e", "f", "g", "h", "i", "j", "k", "l", "m",
               "n", "o", "p", "q", "r", "s", "t", "u", "v", "w", "x", "y", "z"}

UpperChars == {"A", "B", "C", "D", "E", "F", "G", "H", "I", "J", "K", "L", "M",
               "N", "O", "P", "Q", "R", "S", "T", "U", "V", "W", "X", "Y", "Z"}

\* The class [a-zA-Z10-9] of LD_NOT_FOUND_RE.
LibraryChars == LowerChars \cup UpperChars \cup {"1"} \cup DigitChars

\* The characters str::trim removes (White_Space), restricted to ASCII.
WhitespaceChars == {" ", "\t", "\n", "\r", "\f"}

(***************************************************************************)
(* Regular expressions: a pattern is a sequence of atoms, matched with the *)
(* regex crate's leftmost-first semantics (greedy repetition, alternatives *)
(* in the order written, the search unanchored on both sides).             *)
(***************************************************************************)

Lit(s) == [t |-> "lit", s |-> s]
AnyChar == [t |-> "dot"]
AnyStar == [t |-> "star"]
OneOrMore(class) == [t |-> "plus", class |-> class]
Alt(alts) == [t |-> "alt", alts |-> alts]
GroupOpen == [t |-> "open"]
GroupClose == [t |-> "close"]

NoMatch == [matched |-> FALSE]

Max(S) == CHOOSE m \in S : \A k \in S : k <= m
Min(S) == CHOOSE m \in S : \A k \in S : m <= k

\* The number of consecutive characters of s after position i that the
\* repeated atom accepts: any character but a line break (any), or a character
\* of class.
RunLen(s, i, class, any) ==
    LET Accepts(k) == LET ch == CharAt(s, i + k) IN
                      IF any THEN ch # "\n" ELSE ch \in class
        rejected == {k \in 1..(Len(s) - i) : ~Accepts(k)}
    IN  IF rejected = {} THEN Len(s) - i ELSE Min(rejected) - 1

RECURSIVE MatchFrom(_, _, _, _)

\* Whether the atoms rest can start at position j of s at all: a literal at
\* their head must stand there.
CanStart(rest, s, j) ==
    \/ rest = <<>>
    \/ rest[1].t # "lit"
    \/ /\ j + Len(rest[1].s) <= Len(s)
       /\ SubSeq(s, j + 1, j + Len(rest[1].s)) = rest[1].s

\* Greedy repetition followed by rest: of the extents lo..hi the repetition
\* can take, the longest after which rest matches.
Greedy(rest, s, lo, hi, cap) ==
    LET ends == {j \in lo..hi : CanStart(rest, s, j) /\ MatchFrom(rest, s, j, cap).matched}
    IN  IF ends = {} THEN NoMatch ELSE MatchFrom(rest, s, Max(ends), cap)

\* Alternation followed by rest: the first alternative, in the order written,
\* after which rest matches.
FirstAlt(alts, rest, s, i, cap) ==
    LET ok == {k \in 1..Len(alts) : MatchFrom(alts[k] \o rest, s, i, cap).matched} IN
    IF ok = {} THEN NoMatch ELSE MatchFrom(alts[Min(ok)] \o rest, s, i, cap)

\* The preferred match of the atoms re against s with i characters already
\* consumed; cap holds the bounds of capture group 1 met so far.
MatchFrom(re, s, i, cap) ==
    IF re = <<>> THEN [matched |-> TRUE, end |-> i, from |-> cap.from, to |-> cap.to]
    ELSE LET a == Head(re)
             rest == Tail(re)
         IN  CASE a.t = "lit" ->
                    IF i + Len(a.s) <= Len(s) /\ SubSeq(s, i + 1, i + Len(a.s)) = a.s
                    THEN MatchFrom(rest, s, i + Len(a.s), cap)
                    ELSE NoMatch
               [] a.t = "dot" ->
                    IF i < Len(s) /\ CharAt(s, i + 1) # "\n"
                    THEN MatchFrom(rest, s, i + 1, cap)
                    ELSE NoMatch
               [] a.t = "star" ->
                    Greedy(rest, s, i, i + RunLen(s, i, {}, TRUE), cap)
               [] a.t = "plus" ->
                    Greedy(rest, s, i + 1, i + RunLen(s, i, a.class, FALSE), cap)
               [] a.t = "alt" -> FirstAlt(a.alts, rest, s, i, cap)
               [] a.t = "open" -> MatchFrom(rest, s, i, [cap EXCEPT !.from = i])
               [] a.t = "close" -> MatchFrom(rest, s, i, [cap EXCEPT !.to = i])

\* Unanchored search: the match at the leftmost start position that admits one.
Search(re, s) ==
    LET none == [from |-> 0, to |-> 0]
        starts == {k \in 0..Len(s) : MatchFrom(re, s, k, none).matched}
    IN  IF starts = {} THEN NoMatch ELSE MatchFrom(re, s, Min(starts), none)

\* Regex::is_match
IsMatch(re, s) == Search(re, s).matched

\* Regex::captures followed by Captures::extract for one group: the text of
\* group 1, or None.
None == [some |-> FALSE]
Some(v) == [some |-> TRUE, v |-> v]

Captures(re, s) ==
    LET r == Search(re, s) IN
    IF r.matched THEN Some(SubSeq(s, r.from + 1, r.to)) ELSE None

(***************************************************************************)
(* The six signatures                                                      *)
(***************************************************************************)

\* (?:c|c..|h|h..)
SourceExt == Alt(<< <<Lit("c")>>, <<Lit("c"), AnyChar, AnyChar>>,
                    <<Lit("h")>>, <<Lit("h"), AnyChar, AnyChar>> >>)

\* (?:h|h..)
HeaderExt == Alt(<< <<Lit("h")>>, <<Lit("h"), AnyChar, AnyChar>> >>)

MISSING_HEADER_RE_GCC ==
    << AnyStar, Lit("."), SourceExt, Lit(":"), OneOrMore(DigitChars), Lit(":"),
       OneOrMore(DigitChars), Lit(": fatal error: "),
       GroupOpen, AnyStar, Lit("."), HeaderExt, GroupClose,
       Lit(": No such file or directory") >>

\* The Clang signature with the quotes inside the group, '(.*\.(?:h|h..))'
\* read as ('.*\.(?:h|h..)'): the property C7 tells the two apart.
MISSING_HEADER_RE_CLANG_QuotesCaptured ==
    << AnyStar, Lit("."), SourceExt, Lit(":"), OneOrMore(DigitChars), Lit(":"),
       OneOrMore(DigitChars), Lit(": fatal error: "),
       GroupOpen, Lit("'"), AnyStar, Lit("."), HeaderExt, Lit("'"), GroupClose,
       Lit(" file not found") >>

MISSING_HEADER_RE_CLANG ==
    << AnyStar, Lit("."), SourceExt, Lit(":"), OneOrMore(DigitChars), Lit(":"),
       OneOrMore(DigitChars), Lit(": fatal error: '"),
       GroupOpen, AnyStar, Lit("."), HeaderExt, GroupClose,
       Lit("' file not found") >>

MISSING_HEADER_RE_MSVC ==
    << AnyStar, Lit("."), SourceExt, Lit("("), OneOrMore(DigitChars),
       Lit("): fatal error C1083: Cannot open include file: '"),
       GroupOpen, AnyStar, Lit("."), HeaderExt, GroupClose,
       Lit("': No such file or directory") >>

\* The linker signature with the group opened before the flag, (-l[...]+):
\* the property C8 tells the two apart.
LD_NOT_FOUND_RE_FlagCaptured ==
    << Lit("/usr/bin/ld: cannot find "),
       GroupOpen, Lit("-l"), OneOrMore(LibraryChars), GroupClose,
       Lit(": No such file or directory") >>

LD_NOT_FOUND_RE ==
    << Lit("/usr/bin/ld: cannot find -l"),
       GroupOpen, OneOrMore(LibraryChars), GroupClose,
       Lit(": No such file or directory") >>

WHEEL_NOT_FOUND_RE == << Lit("error: invalid command 'bdist_wheel'") >>

TORCH_NOT_FOUND_RE == << Lit("ModuleNotFoundError: No module named 'torch'") >>

(***************************************************************************)
(* MissingLibrary, MissingHeaderCause and the Error variants               *)
(***************************************************************************)

Header(name) == [kind |-> "Header", name |-> name]
Linker(name) == [kind |-> "Linker", name |-> name]
PythonPackage(name) == [kind |-> "PythonPackage", name |-> name]

MissingHeaderCause(missing_library, version_id) ==
    [missing_library |-> missing_library, version_id |-> version_id]

BuildBackendOutput(message, exit_code, stdout, stderr) ==
    [variant |-> "BuildBackendOutput", message |-> message, exit_code |-> exit_code,
     stdout |-> stdout, stderr |-> stderr]

MissingHeaderOutput(message, exit_code, stdout, stderr, cause) ==
    [variant |-> "MissingHeaderOutput", message |-> message, exit_code |-> exit_code,
     stdout |-> stdout, stderr |-> stderr, missing_header_cause |-> cause]

BuildBackend(message, exit_code) ==
    [variant |-> "BuildBackend", message |-> message, exit_code |-> exit_code]

MissingHeader(message, exit_code, cause) ==
    [variant |-> "MissingHeader", message |-> message, exit_code |-> exit_code,
     missing_header_cause |-> cause]

\* BuildOutput, the two levels from_command_output distinguishes.
Levels == {"Stderr", "Debug"}

(***************************************************************************)
(* Iterator and string helpers                                             *)
(***************************************************************************)

RECURSIVE TrimStart(_), TrimEnd(_)
TrimStart(s) ==
    IF Len(s) > 0 /\ CharAt(s, 1) \in WhitespaceChars
    THEN TrimStart(SubSeq(s, 2, Len(s)))
    ELSE s

TrimEnd(s) ==
    IF Len(s) > 0 /\ CharAt(s, Len(s)) \in WhitespaceChars
    THEN TrimEnd(SubSeq(s, 1, Len(s) - 1))
    ELSE s

\* str::trim
Trim(s) == TrimEnd(TrimStart(s))

\* Iterator::rev
Rev(seq) == [i \in 1..Len(seq) |-> seq[Len(seq) + 1 - i]]

\* Iterator::take
Take(seq, n) == SubSeq(seq, 1, IF Len(seq) < n THEN Len(seq) ELSE n)

RECURSIVE Join(_, _)
\* Itertools::join
Join(seq, sep) ==
    IF seq = <<>> THEN ""
    ELSE IF Len(seq) = 1 THEN seq[1]
    ELSE seq[1] \o sep \o Join(Tail(seq), sep)

\* Option::or
OptionOr(a, b) == IF a.some THEN a ELSE b

(***************************************************************************)
(* Rendering: ExitStatus, the #[error(...)] templates of Error, and        *)
(* Display for MissingHeaderCause                                          *)
(***************************************************************************)

\* Display for ExitStatus: "exit status: N" on Unix, "exit code: N" on Windows.
ExitStatusDisplay(status) ==
    (IF status.os = "windows" THEN "exit code: " ELSE "exit status: ")
        \o ToString(status.code)

\* Display for Error (thiserror), the four build-backend variants.
ErrorDisplay(e) ==
    IF e.variant \in {"BuildBackendOutput", "MissingHeaderOutput"}
    THEN e.message \o " with " \o ExitStatusDisplay(e.exit_code)
            \o "\n--- stdout:\n" \o e.stdout
            \o "\n--- stderr:\n" \o e.stderr \o "\n---"
    ELSE e.message \o " with " \o ExitStatusDisplay(e.exit_code)

\* The character ` (a string literal holding it runs on to the next ', which
\* SubSeq cuts off again).
Backtick == SubSeq("`'", 1, 1)

\* Display for MissingHeaderCause with the PythonPackage arm in paraphrase,
\* naming neither the table, the command nor the flag: the property C9 tells
\* the two apart.
CauseDisplayParaphrased(c) ==
    LET name == c.missing_library.name
        version_id == c.version_id
    IN  CASE c.missing_library.kind = "Header" ->
               "This error likely indicates that you need to install a library that provides \""
                   \o name \o "\" for " \o version_id
          [] c.missing_library.kind = "Linker" ->
               "This error likely indicates that you need to install the library that provides a shared library "
                   \o "for " \o name \o " for " \o version_id
                   \o " (e.g. lib" \o name \o "-dev)"
          [] c.missing_library.kind = "PythonPackage" ->
               "This error likely indicates that " \o version_id \o " depends on " \o name
                   \o ", but doesn't declare it as a build dependency. "
                   \o "If " \o version_id \o " is a first-party package, consider adding "
                   \o name \o " to its build-system requirements. "
                   \o "Otherwise, install " \o name
                   \o " into the environment and re-run with build isolation disabled."

\* Display for MissingHeaderCause
CauseDisplay(c) ==
    LET name == c.missing_library.name
        version_id == c.version_id
    IN  CASE c.missing_library.kind = "Header" ->
               "This error likely indicates that you need to install a library that provides \""
                   \o name \o "\" for " \o version_id
          [] c.missing_library.kind = "Linker" ->
               "This error likely indicates that you need to install the library that provides a shared library "
                   \o "for " \o name \o " for " \o version_id
                   \o " (e.g. lib" \o name \o "-dev)"
          [] c.missing_library.kind = "PythonPackage" ->
               "This error likely indicates that " \o version_id \o " depends on " \o name
                   \o ", but doesn't declare it as a build dependency. "
                   \o "If " \o version_id \o " is a first-party package, consider adding "
                   \o name \o " to its " \o Backtick \o "build-system.requires"
                   \o Backtick \o ". "
                   \o "Otherwise, " \o Backtick \o "uv pip install " \o name
                   \o Backtick \o " into the environment and re-run with "
                   \o Backtick \o "--no-build-isolation" \o Backtick \o "."

\* std::error::Error::source (#[source]): the cause, for the two variants
\* that carry one.
Source(e) ==
    IF e.variant \in {"MissingHeader", "MissingHeaderOutput"}
    THEN Some(e.missing_header_cause)
    ELSE None

(***************************************************************************)
(* Inputs: the stderr lines, captured outputs, messages and package        *)
(* identities the calls are made with                                      *)
(***************************************************************************)

\* The longest stderr of the scan inputs; the scan window is TailWindow lines.
MaxLines == 12

\* The three missing-header shapes and the linker shape, from their parts.
GccLine(src, ln, col, path) ==
    src \o ":" \o ln \o ":" \o col \o ": fatal error: " \o path
        \o ": No such file or directory"

ClangLine(src, ln, col, path) ==
    src \o ":" \o ln \o ":" \o col \o ": fatal error: '" \o path \o "' file not found"

MsvcLine(src, ln, path) ==
    src \o "(" \o ln \o "): fatal error C1083: Cannot open include file: '" \o path
        \o "': No such file or directory"

LdLine(program, name) ==
    program \o ": cannot find -l" \o name \o ": No such file or directory"

WheelLine == "error: invalid command 'bdist_wheel'"
TorchLine == "ModuleNotFoundError: No module named 'torch'"

Sources == {"pygraphviz/graphviz_wrap.c", "a.cc"}
LineNumbers == {"3020"}
Columns == {"10"}
HeaderPaths == {"graphviz/cgraph.h", "x.hpp", "y.hh"}
LinkerPrograms == {"/usr/bin/ld", "/usr/bin/x86_64-linux-gnu-ld"}
LibraryNames == {"ncurses", "stdc++"}

GccLines == {GccLine(s, l, c, p) : s \in Sources, l \in LineNumbers, c \in Columns, p \in HeaderPaths}
ClangLines == {ClangLine(s, l, c, p) : s \in Sources, l \in LineNumbers, c \in Columns, p \in HeaderPaths}
MsvcLines == {MsvcLine(s, l, p) : s \in Sources, l \in LineNumbers, p \in HeaderPaths}
LdLines == {LdLine(g, n) : g \in LinkerPrograms, n \in LibraryNames}

\* A line with whitespace around it, as build tools indent their output.
Padded(line) == "  " \o line \o " \t"

PaddedLines ==
    {Padded(GccLine("pygraphviz/graphviz_wrap.c", "3020", "10", "graphviz/cgraph.h")),
     Padded(LdLine("/usr/bin/ld", "ncurses")), Padded(WheelLine)}

\* Lines that more than one signature matches.
HeaderAndLinkerLine == GccLine("a.c", "1", "1", "x.h") \o " " \o LdLine("/usr/bin/ld", "z")
LinkerAndWheelLine == LdLine("/usr/bin/ld", "z") \o "; " \o WheelLine
TorchAndWheelLine == TorchLine \o "; " \o WheelLine
GccAndClangLine == ClangLine("a.c", "1", "1", "x.h") \o "; y.h: No such file or directory"
MsvcAndClangLine == MsvcLine("b.c", "2", "y.h") \o " " \o ClangLine("a.c", "1", "1", "x.h")

MixedLines ==
    {HeaderAndLinkerLine, LinkerAndWheelLine, TorchAndWheelLine, GccAndClangLine,
     MsvcAndClangLine}

SignalLines ==
    GccLines \cup ClangLines \cup MsvcLines \cup LdLines \cup {WheelLine, TorchLine}
        \cup PaddedLines \cup MixedLines

\* The lines that stand two at a time in one stderr.
PairLines ==
    {GccLine("pygraphviz/graphviz_wrap.c", "3020", "10", "graphviz/cgraph.h"),
     LdLine("/usr/bin/ld", "ncurses"), WheelLine, TorchLine}

\* Lines of a build log that no signature is written for.
NoiseLines ==
    << "compilation terminated.",
       " 3020 | #include \"graphviz/cgraph.h\"",
       "",
       "error: command '/usr/bin/gcc' failed with exit code 1" >>

Noise(k) == NoiseLines[(k % Len(NoiseLines)) + 1]

NoiseOnly(n) == [k \in 1..n |-> Noise(k)]
OneSignal(n, i, line) == [k \in 1..n |-> IF k = i THEN line ELSE Noise(k)]
TwoSignals(n, i, a, j, b) ==
    [k \in 1..n |-> IF k = i THEN a ELSE IF k = j THEN b ELSE Noise(k)]

ScanStderrs ==
    {NoiseOnly(n) : n \in 0..MaxLines}
        \cup {OneSignal(n, i, l) : n \in 1..MaxLines, i \in 1..MaxLines, l \in SignalLines}
        \cup {TwoSignals(n, i, a, j, b) :
                n \in 2..MaxLines, i \in 1..MaxLines, j \in 1..MaxLines,
                a \in PairLines, b \in PairLines}

\* ExitStatus values: the platform decides how one is displayed.
Statuses ==
    {[os |-> "unix", code |-> 0], [os |-> "unix", code |-> 1],
     [os |-> "windows", code |-> 1]}

Messages ==
    {"Failed building wheel through setup.py",
     "Build backend failed to flush stdout",
     "Build backend closed stderr"}

VersionIds == {"pygraphviz-1.11", "torch-2.1.0"}

Stdouts ==
    {<<>>,
     <<"running bdist_wheel", "running build">>,
     <<"  creating build/temp  ", "", "--- stderr:">>}

\* The stderr of the three tests, an empty one and an import failure.
MissingHeaderStderr ==
    << "warning: no files found matching '*.png' under directory 'doc'",
       "warning: no files found matching '*.txt' under directory 'doc'",
       "[...]",
       "no previously-included directories found matching 'doc/build'",
       "pygraphviz/graphviz_wrap.c:3020:10: fatal error: graphviz/cgraph.h: No such file or directory",
       " 3020 | #include \"graphviz/cgraph.h\"",
       "      |          ^~~~~~~~~~~~~~~~~~~",
       "compilation terminated.",
       "error: command '/usr/bin/gcc' failed with exit code 1" >>

MissingLinkerLibraryStderr ==
    << "1099 |     n = strlen(p);",
       "     |         ^~~~~~~~~",
       "/usr/bin/ld: cannot find -lncurses: No such file or directory",
       "collect2: error: ld returned 1 exit status",
       "error: command '/usr/bin/x86_64-linux-gnu-gcc' failed with exit code 1" >>

MissingWheelPackageStderr ==
    << "usage: setup.py [global_opts] cmd1 [cmd1_opts] [cmd2 [cmd2_opts] ...]",
       "   or: setup.py --help [cmd1 cmd2 ...]",
       "   or: setup.py --help-commands",
       "   or: setup.py cmd --help",
       "",
       "error: invalid command 'bdist_wheel'" >>

MissingTorchStderr ==
    << "Traceback (most recent call last):",
       "  File \"setup.py\", line 3, in <module>",
       "    import torch",
       TorchLine >>

RenderStderrs ==
    {<<>>, MissingHeaderStderr, MissingLinkerLibraryStderr, MissingWheelPackageStderr,
     MissingTorchStderr}

\* Every line of the inputs.
Range(seq) == {seq[k] : k \in 1..Len(seq)}

StderrLines ==
    SignalLines \cup Range(NoiseLines) \cup UNION {Range(e) : e \in RenderStderrs}

(***************************************************************************)
(* Error::from_command_output                                              *)
(***************************************************************************)

\* The six statics, in the order the closure tries them.
Signatures ==
    << "MISSING_HEADER_RE_GCC", "MISSING_HEADER_RE_CLANG", "MISSING_HEADER_RE_MSVC",
       "LD_NOT_FOUND_RE", "WHEEL_NOT_FOUND_RE", "TORCH_NOT_FOUND_RE" >>

SignatureNames == Range(Signatures)

\* The Regex a static holds once initialized.
Regex(name) ==
    CASE name = "MISSING_HEADER_RE_GCC" -> MISSING_HEADER_RE_GCC
      [] name = "MISSING_HEADER_RE_CLANG" -> MISSING_HEADER_RE_CLANG
      [] name = "MISSING_HEADER_RE_MSVC" -> MISSING_HEADER_RE_MSVC
      [] name = "LD_NOT_FOUND_RE" -> LD_NOT_FOUND_RE
      [] name = "WHEEL_NOT_FOUND_RE" -> WHEEL_NOT_FOUND_RE
      [] name = "TORCH_NOT_FOUND_RE" -> TORCH_NOT_FOUND_RE

\* RE.captures(line.trim()) for every static and every line of the inputs,
\* computed once for all the calls that meet the line.
TrimmedCaptures ==
    [line \in StderrLines |->
        [name \in SignatureNames |-> Captures(Regex(name), Trim(line))]]

\* RE.captures(line.trim()).map(|c| c.extract()) and RE.is_match(line.trim())
captures(name, line) == TrimmedCaptures[line][name]
is_match(name, line) == TrimmedCaptures[line][name].some

\* The closure with the linker signature tried before the header ones: the
\* property C3 tells the two apart.
MissingLibraryOfLineLinkerFirst(line) ==
    LET header == OptionOr(OptionOr(captures("MISSING_HEADER_RE_GCC", line),
                                    captures("MISSING_HEADER_RE_CLANG", line)),
                           captures("MISSING_HEADER_RE_MSVC", line))
        library == captures("LD_NOT_FOUND_RE", line)
    IN  IF library.some THEN Some(Linker(library.v))
        ELSE IF header.some THEN Some(Header(header.v))
        ELSE IF is_match("WHEEL_NOT_FOUND_RE", line) THEN Some(PythonPackage("wheel"))
        ELSE IF is_match("TORCH_NOT_FOUND_RE", line) THEN Some(PythonPackage("torch"))
        ELSE None

\* The closure of find_map: the signatures tried on one stderr line.
MissingLibraryOfLine(line) ==
    LET header == OptionOr(OptionOr(captures("MISSING_HEADER_RE_GCC", line),
                                    captures("MISSING_HEADER_RE_CLANG", line)),
                           captures("MISSING_HEADER_RE_MSVC", line))
        library == captures("LD_NOT_FOUND_RE", line)
    IN  IF header.some THEN Some(Header(header.v))
        ELSE IF library.some THEN Some(Linker(library.v))
        ELSE IF is_match("WHEEL_NOT_FOUND_RE", line) THEN Some(PythonPackage("wheel"))
        ELSE IF is_match("TORCH_NOT_FOUND_RE", line) THEN Some(PythonPackage("torch"))
        ELSE None

RECURSIVE find_map(_)
\* Iterator::find_map with that closure: the result for the first line, in
\* the order given, that a signature matches.
find_map(lines) ==
    IF lines = <<>> THEN None
    ELSE LET m == MissingLibraryOfLine(Head(lines)) IN
         IF m.some THEN m ELSE find_map(Tail(lines))

\* The number of trailing stderr lines scanned.
TailWindow == 10

\* The last ten lines taken oldest first, without rev() at the head of the
\* scan: the property C1 tells the two apart.
ScanWindowOldestFirst(stderr) == Rev(Take(Rev(stderr), TailWindow))

\* A window one line longer: the property C2 tells the two apart.
ScanWindowOneMore(stderr) == Take(Rev(stderr), TailWindow + 1)

\* output.stderr.iter().rev().take(10)
ScanWindow(stderr) == Take(Rev(stderr), TailWindow)

\* The two matches with the stderr block made of the scanned lines only: the
\* property C5 tells the two apart.
AssembleWindowOnly(message, output, level, version_id, missing_library) ==
    LET scanned == Join(Rev(Take(Rev(output.stderr), TailWindow)), "\n") IN
    IF missing_library.some
    THEN IF level = "Stderr"
         THEN MissingHeader(message, output.status,
                            MissingHeaderCause(missing_library.v, version_id))
         ELSE MissingHeaderOutput(message, output.status,
                                  Join(output.stdout, "\n"), scanned,
                                  MissingHeaderCause(missing_library.v, version_id))
    ELSE IF level = "Stderr"
         THEN BuildBackend(message, output.status)
         ELSE BuildBackendOutput(message, output.status,
                                 Join(output.stdout, "\n"), scanned)

\* The two matches with the arms of the levels exchanged: the property C6
\* tells the two apart.
AssembleLevelsExchanged(message, output, level, version_id, missing_library) ==
    IF missing_library.some
    THEN IF level = "Debug"
         THEN MissingHeader(message, output.status,
                            MissingHeaderCause(missing_library.v, version_id))
         ELSE MissingHeaderOutput(message, output.status,
                                  Join(output.stdout, "\n"), Join(output.stderr, "\n"),
                                  MissingHeaderCause(missing_library.v, version_id))
    ELSE IF level = "Debug"
         THEN BuildBackend(message, output.status)
         ELSE BuildBackendOutput(message, output.status,
                                 Join(output.stdout, "\n"), Join(output.stderr, "\n"))

\* The two matches on level that follow the scan.
Assemble(message, output, level, version_id, missing_library) ==
    IF missing_library.some
    THEN IF level = "Stderr"
         THEN MissingHeader(message, output.status,
                            MissingHeaderCause(missing_library.v, version_id))
         ELSE MissingHeaderOutput(message, output.status,
                                  Join(output.stdout, "\n"), Join(output.stderr, "\n"),
                                  MissingHeaderCause(missing_library.v, version_id))
    ELSE IF level = "Stderr"
         THEN BuildBackend(message, output.status)
         ELSE BuildBackendOutput(message, output.status,
                                 Join(output.stdout, "\n"), Join(output.stderr, "\n"))

\* The call with the whole of stderr scanned under Debug: the property C4 tells
\* the two apart.
from_command_output_level_scan(message, output, level, version_id) ==
    Assemble(message, output, level, version_id,
             find_map(IF level = "Debug" THEN Rev(output.stderr)
                      ELSE ScanWindow(output.stderr)))

from_command_output(message, output, level, version_id) ==
    Assemble(message, output, level, version_id, find_map(ScanWindow(output.stderr)))

(***************************************************************************)
(* The statics: each a LazyLock<Regex>, initialized by the first           *)
(* dereference and read by every later one                                 *)
(***************************************************************************)

\* A LazyLock nobody has dereferenced: no value, no initializer running.
Incomplete == [state |-> "Incomplete", owners |-> {}, value |-> None, inits |-> 0]

\* A dereference that runs the initializer whenever no value is stored yet,
\* even with one running: the property C10 tells the two apart.
MayInitializeWhileRunning(cell) == cell.state # "Complete"

\* LazyLock::force: a dereference runs the initializer only if none has run
\* or is running; a thread that finds one running waits for it.
MayInitialize(cell) == cell.state = "Incomplete"

Running(cell, thread) ==
    [cell EXCEPT !.state = "Running", !.owners = @ \cup {thread}]

\* The closure of LazyLock::new returned: Regex::new(..).unwrap() is stored.
Completed(name, cell, thread) ==
    [state |-> "Complete", owners |-> cell.owners \ {thread}, value |-> Some(name),
     inits |-> cell.inits + 1]

\* The statics the closure dereferences on one line: the three header ones
\* always (Option::or takes its argument evaluated), the others as long as
\* nothing matched.
Dereferenced(line) ==
    {Signatures[k] : k \in 1..3}
        \cup (IF \E k \in 1..3 : is_match(Signatures[k], line) THEN {}
              ELSE {Signatures[4]}
                \cup (IF is_match(Signatures[4], line) THEN {}
                      ELSE {Signatures[5]}
                        \cup (IF is_match(Signatures[5], line) THEN {}
                              ELSE {Signatures[6]})))

\* The lines find_map hands to the closure: up to the first that matches.
Scanned(window) ==
    LET hits == {k \in 1..Len(window) : MissingLibraryOfLine(window[k]).some} IN
    IF hits = {} THEN window ELSE SubSeq(window, 1, Min(hits))

ForcedBy(stderr) == UNION {Dereferenced(line) : line \in Range(Scanned(ScanWindow(stderr)))}

(***************************************************************************)
(* Calls                                                                   *)
(***************************************************************************)

PythonRunnerOutput(status, stdout, stderr) ==
    [status |-> status, stdout |-> stdout, stderr |-> stderr]

\* What a call is made with: the message, the captured output and the package.
\* The scan inputs vary stderr; the render inputs vary everything else.
ScanInputs ==
    {[message |-> "Failed building wheel through setup.py",
      output |-> PythonRunnerOutput([os |-> "unix", code |-> 0], <<>>, e),
      version_id |-> "pygraphviz-1.11"] : e \in ScanStderrs}

RenderInputs ==
    {[message |-> m, output |-> PythonRunnerOutput(st, o, e), version_id |-> v] :
        m \in Messages, st \in Statuses, o \in Stdouts, e \in RenderStderrs,
        v \in VersionIds}

Inputs == ScanInputs \cup RenderInputs

\* The threads that classify concurrently, each its own build attempt.
NumThreads == 2
Threads == 1..NumThreads

ConcurrentStderrs ==
    {<<>>, <<HeaderAndLinkerLine>>, <<WheelLine, Noise(0)>>,
     <<LdLine("/usr/bin/ld", "ncurses")>>}

ConcurrentInputs ==
    {[message |-> "Failed building wheel through setup.py",
      output |-> PythonRunnerOutput([os |-> "unix", code |-> 1], <<"running build">>, e),
      version_id |-> "pygraphviz-1.11"] : e \in ConcurrentStderrs}

NoInput == [message |-> "", output |-> PythonRunnerOutput([os |-> "unix", code |-> 0], <<>>, <<>>),
            version_id |-> ""]

Idle == [pc |-> "idle", in |-> NoInput, level |-> "Stderr", window |-> <<>>, k |-> 0,
         header |-> None, found |-> None, result |-> None]

(***************************************************************************)
(* The state                                                               *)
(***************************************************************************)

VARIABLES
    message,     \* the caller's message
    output,      \* the PythonRunnerOutput, complete and immutable
    version_id,  \* the package identity
    errs,        \* per level, the Error from_command_output returned, if called
    report,      \* the last error reported: its level, Display text, source text
    cells,       \* the six statics
    calls        \* per thread, the call of from_command_output it is in

vars == <<message, output, version_id, errs, report, cells, calls>>

(***************************************************************************)
(* One failed build whose captured output is classified at either level,   *)
(* each call a single step, and the resulting errors reported              *)
(***************************************************************************)

Init ==
    /\ \E in \in Inputs :
         /\ message = in.message
         /\ output = in.output
         /\ version_id = in.version_id
    /\ errs = [level \in Levels |-> None]
    /\ report = None
    /\ cells = [name \in SignatureNames |-> Incomplete]
    /\ calls = [t \in Threads |-> Idle]

\* A call of Error::from_command_output at one level.
FromCommandOutput(level) ==
    /\ errs' = [errs EXCEPT
                  ![level] = Some(from_command_output(message, output, level, version_id))]
    /\ cells' = [name \in SignatureNames |->
                    IF name \in ForcedBy(output.stderr) /\ MayInitialize(cells[name])
                    THEN Completed(name, cells[name], 0)
                    ELSE cells[name]]
    /\ UNCHANGED <<message, output, version_id, report, calls>>

\* The error reporter: err.to_string() and the source's to_string().
Report(level) ==
    /\ errs[level].some
    /\ LET err == errs[level].v IN
       report' = Some([level |-> level,
                       primary |-> ErrorDisplay(err),
                       source |-> IF Source(err).some
                                  THEN Some(CauseDisplay(Source(err).v))
                                  ELSE None])
    /\ UNCHANGED <<message, output, version_id, errs, cells, calls>>

Next ==
    \E level \in Levels :
        \/ FromCommandOutput(level)
        \/ Report(level)

Spec == Init /\ [][Next]_vars

(***************************************************************************)
(* Several threads in from_command_output at once, each call followed      *)
(* dereference by dereference                                              *)
(***************************************************************************)

InitConcurrent ==
    /\ message = NoInput.message
    /\ output = NoInput.output
    /\ version_id = NoInput.version_id
    /\ errs = [level \in Levels |-> None]
    /\ report = None
    /\ cells = [name \in SignatureNames |-> Incomplete]
    /\ calls = [t \in Threads |-> Idle]

\* The static a thread is about to dereference, and the line it is on.
AtSignature(t) == calls[t].pc \in SignatureNames
Line(t) == calls[t].window[calls[t].k]

\* Thread t enters from_command_output: the window is taken, and the scan
\* starts on its first line or, stderr being empty, ends at once.
Call(t, in, level) ==
    /\ calls[t].pc = "idle"
    /\ LET window == ScanWindow(in.output.stderr) IN
       calls' = [calls EXCEPT ![t] =
                    [pc |-> IF window = <<>> THEN "assemble" ELSE Signatures[1],
                     in |-> in, level |-> level, window |-> window,
                     k |-> IF window = <<>> THEN 0 ELSE 1,
                     header |-> None, found |-> None, result |-> None]]
    /\ UNCHANGED <<message, output, version_id, errs, report, cells>>

\* Thread t dereferences a static nobody initialized: it runs the closure.
BeginInit(t) ==
    /\ AtSignature(t)
    /\ MayInitialize(cells[calls[t].pc])
    /\ t \notin cells[calls[t].pc].owners
    /\ cells' = [cells EXCEPT ![calls[t].pc] = Running(@, t)]
    /\ UNCHANGED <<message, output, version_id, errs, report, calls>>

\* The closure returns and the Regex is stored.
FinishInit(t) ==
    /\ AtSignature(t)
    /\ t \in cells[calls[t].pc].owners
    /\ cells' = [cells EXCEPT ![calls[t].pc] = Completed(calls[t].pc, @, t)]
    /\ UNCHANGED <<message, output, version_id, errs, report, calls>>

\* Where the closure goes on after the static at pc was tried on the line.
AfterMatch(c, line) ==
    LET m == captures(c.pc, line)
        header == OptionOr(c.header, m)
        NextLine == IF c.k < Len(c.window)
                    THEN [c EXCEPT !.pc = Signatures[1], !.k = @ + 1, !.header = None]
                    ELSE [c EXCEPT !.pc = "assemble", !.found = None]
        Found(lib) == [c EXCEPT !.pc = "assemble", !.found = Some(lib)]
    IN  CASE c.pc = "MISSING_HEADER_RE_GCC" ->
               [c EXCEPT !.pc = "MISSING_HEADER_RE_CLANG", !.header = header]
          [] c.pc = "MISSING_HEADER_RE_CLANG" ->
               [c EXCEPT !.pc = "MISSING_HEADER_RE_MSVC", !.header = header]
          [] c.pc = "MISSING_HEADER_RE_MSVC" ->
               IF header.some THEN Found(Header(header.v))
               ELSE [c EXCEPT !.pc = "LD_NOT_FOUND_RE"]
          [] c.pc = "LD_NOT_FOUND_RE" ->
               IF m.some THEN Found(Linker(m.v))
               ELSE [c EXCEPT !.pc = "WHEEL_NOT_FOUND_RE"]
          [] c.pc = "WHEEL_NOT_FOUND_RE" ->
               IF m.some THEN Found(PythonPackage("wheel"))
               ELSE [c EXCEPT !.pc = "TORCH_NOT_FOUND_RE"]
          [] c.pc = "TORCH_NOT_FOUND_RE" ->
               IF m.some THEN Found(PythonPackage("torch")) ELSE NextLine

\* Thread t dereferences an initialized static and tries it on its line.
Match(t) ==
    /\ AtSignature(t)
    /\ cells[calls[t].pc].state = "Complete"
    /\ t \notin cells[calls[t].pc].owners
    /\ calls' = [calls EXCEPT ![t] = AfterMatch(@, Line(t))]
    /\ UNCHANGED <<message, output, version_id, errs, report, cells>>

\* The scan is over: the Error is assembled and returned.
Return(t) ==
    /\ calls[t].pc = "assemble"
    /\ LET c == calls[t] IN
       calls' = [calls EXCEPT ![t] =
                    [c EXCEPT !.pc = "done",
                              !.result = Some(Assemble(c.in.message, c.in.output, c.level,
                                                       c.in.version_id, c.found))]]
    /\ UNCHANGED <<message, output, version_id, errs, report, cells>>

NextConcurrent ==
    \E t \in Threads :
        \/ \E in \in ConcurrentInputs, level \in Levels : Call(t, in, level)
        \/ BeginInit(t)
        \/ FinishInit(t)
        \/ Match(t)
        \/ Return(t)

SpecConcurrent == InitConcurrent /\ [][NextConcurrent]_vars

(***************************************************************************)
(* What the properties below speak of                                      *)
(***************************************************************************)

Contains(text, sub) ==
    \E k \in 1..(Len(text) - Len(sub) + 1) : SubSeq(text, k, k + Len(sub) - 1) = sub

Called(level) == errs[level].some

\* The positions of stderr among its last ten.
LastTen == {i \in 1..Len(output.stderr) : Len(output.stderr) - i < 10}

MatchesSome(line) == \E name \in SignatureNames : is_match(name, line)
MatchesHeader(line) ==
    \E name \in {"MISSING_HEADER_RE_GCC", "MISSING_HEADER_RE_CLANG",
                 "MISSING_HEADER_RE_MSVC"} : is_match(name, line)

\* The positions among the last ten whose line some signature matches, and
\* the line closest to the end of stderr among them.
Matching == {i \in LastTen : MatchesSome(output.stderr[i])}
Winner == output.stderr[Max(Matching)]

HasCause(e) == e.variant \in {"MissingHeader", "MissingHeaderOutput"}
Generic(e) == e.variant \in {"BuildBackend", "BuildBackendOutput"}

\* C1: the attached cause is the one of the matching line closest to the end
\* of stderr; a less recent matching line of the window, whatever signature it
\* matches, never decides it.
C1_MostRecentMatchWins ==
    \A level \in Levels :
        (Called(level) /\ Matching # {}) =>
            /\ HasCause(errs[level].v)
            /\ errs[level].v.missing_header_cause.missing_library
                 = MissingLibraryOfLine(Winner).v

\* A header line followed later by a linker line, both in the window: Linker.
C1_Witness ==
    /\ Called("Stderr")
    /\ \E i \in Matching, j \in Matching :
         /\ i < j /\ j = Max(Matching)
         /\ MissingLibraryOfLine(output.stderr[i]).v.kind = "Header"
         /\ MissingLibraryOfLine(output.stderr[j]).v.kind = "Linker"
    /\ errs["Stderr"].v.missing_header_cause.missing_library.kind = "Linker"

\* C2: a cause is attached if and only if one of the last min(10, n) lines of
\* stderr matches a signature; otherwise the result is BuildBackend or
\* BuildBackendOutput, which have no source.
C2_CauseIffMatchInLastTen ==
    \A level \in Levels :
        Called(level) =>
            /\ HasCause(errs[level].v) <=> Matching # {}
            /\ Source(errs[level].v).some <=> Matching # {}
            /\ Matching = {} => Generic(errs[level].v)

\* The only matching line is the 11th from the end: no cause.
C2_Witness ==
    /\ Called("Debug")
    /\ Len(output.stderr) >= 11
    /\ MatchesSome(output.stderr[Len(output.stderr) - 10])
    /\ Matching = {}
    /\ errs["Debug"].v.variant = "BuildBackendOutput"

\* C3: on the winning line the signatures are taken in the order GCC, Clang,
\* MSVC, linker, bdist_wheel, torch, and the first that matches gives the cause.
C3_SignaturePriority ==
    \A level \in Levels :
        (Called(level) /\ Matching # {}) =>
            LET lib == errs[level].v.missing_header_cause.missing_library
                first == Min({k \in 1..6 : is_match(Signatures[k], Winner)})
                token == captures(Signatures[first], Winner).v
            IN  CASE first \in 1..3 -> lib = [kind |-> "Header", name |-> token]
                  [] first = 4 -> lib = [kind |-> "Linker", name |-> token]
                  [] first = 5 -> lib = [kind |-> "PythonPackage", name |-> "wheel"]
                  [] first = 6 -> lib = [kind |-> "PythonPackage", name |-> "torch"]

\* The winning line matches a header and the linker signature: Header.
C3_Witness ==
    /\ Called("Stderr")
    /\ Matching # {}
    /\ MatchesHeader(Winner)
    /\ is_match("LD_NOT_FOUND_RE", Winner)
    /\ errs["Stderr"].v.missing_header_cause.missing_library.kind = "Header"

\* C4: the calls at the two levels, on the same message, output and package,
\* attach the same cause or none; the level decides only the variant.
C4_LevelDoesNotAffectCause ==
    (Called("Stderr") /\ Called("Debug")) =>
        LET terse == errs["Stderr"].v
            verbose == errs["Debug"].v
        IN  /\ Source(terse) = Source(verbose)
            /\ Source(terse).some =>
                 CauseDisplay(Source(terse).v) = CauseDisplay(Source(verbose).v)
            /\ terse.variant = IF Source(terse).some THEN "MissingHeader" ELSE "BuildBackend"
            /\ verbose.variant = IF Source(verbose).some THEN "MissingHeaderOutput"
                                 ELSE "BuildBackendOutput"
            /\ terse.message = verbose.message
            /\ terse.exit_code = verbose.exit_code

\* Both levels called on a stderr with a cause and with a matching line
\* before the window as well.
C4_Witness ==
    /\ Called("Stderr") /\ Called("Debug")
    /\ Source(errs["Debug"].v).some
    /\ \E i \in 1..Len(output.stderr) : i \notin LastTen /\ MatchesSome(output.stderr[i])

Reported(level) == report.some /\ report.v.level = level

\* C5: under Debug the rendered Error is the message, " with ", the exit
\* status and the two blocks, each holding every captured line of its stream,
\* in order and untrimmed, joined by single line breaks; the stdout marker
\* stands before the stderr marker; an empty stream gives an empty block.
C5_DebugRendering ==
    Reported("Debug") =>
        LET head == message \o " with " \o ExitStatusDisplay(output.status)
            out == Join(output.stdout, "\n")
            err == Join(output.stderr, "\n")
            text == report.v.primary
            at_stdout == Len(head) + 2
            at_stderr == Len(head) + Len("\n--- stdout:\n") + Len(out) + 2
        IN  /\ text = head \o "\n--- stdout:\n" \o out \o "\n--- stderr:\n" \o err \o "\n---"
            /\ SubSeq(text, at_stdout, at_stdout + 10) = "--- stdout:"
            /\ SubSeq(text, at_stderr, at_stderr + 10) = "--- stderr:"
            /\ at_stdout < at_stderr
            /\ output.stdout = <<>> => out = ""
            /\ output.stderr = <<>> => err = ""

\* A Debug report with a cause, of a stderr longer than the window that holds
\* a line with whitespace around it, and of an empty stdout.
C5_Witness ==
    /\ Reported("Debug")
    /\ report.v.source.some
    /\ Len(output.stderr) > 10
    /\ \E i \in 1..Len(output.stderr) : Trim(output.stderr[i]) # output.stderr[i]
    /\ output.stdout = <<>>

\* C6 as stated: no terse rendering contains "stdout" or "stderr", whatever
\* the caller's message.
C6_TerseNeverNamesStreams ==
    Reported("Stderr") =>
        /\ ~Contains(report.v.primary, "stdout")
        /\ ~Contains(report.v.primary, "stderr")

\* C6 amended: a terse rendering is the message, " with " and the exit status,
\* and contains "stdout" or "stderr" only if the caller's message does.
C6_TerseNamesStreamsOnlyFromMessage ==
    Reported("Stderr") =>
        /\ report.v.primary = message \o " with " \o ExitStatusDisplay(output.status)
        /\ \A word \in {"stdout", "stderr"} :
             Contains(report.v.primary, word) => Contains(message, word)

\* A terse report of a build with both streams non-empty and a cause, under
\* a message that names neither stream.
C6_Witness ==
    /\ Reported("Stderr")
    /\ output.stdout # <<>> /\ output.stderr # <<>>
    /\ report.v.source.some
    /\ ~Contains(message, "stdout") /\ ~Contains(message, "stderr")
    /\ ~Contains(report.v.primary, "stdout") /\ ~Contains(report.v.primary, "stderr")

\* The source text of a Header cause.
HeaderText(path, package) ==
    "This error likely indicates that you need to install a library that provides \""
        \o path \o "\" for " \o package

\* C7: when the winning line has the GCC, Clang or MSVC missing-header shape,
\* the cause is Header(path), the path without its quotes, and the source
\* renders as the header explanation naming the path and the package.
C7_HeaderShapes ==
    \A level \in Levels :
        (Called(level) /\ Matching # {}) =>
            \A src \in Sources, ln \in LineNumbers, col \in Columns, path \in HeaderPaths :
                Trim(Winner) \in {GccLine(src, ln, col, path), ClangLine(src, ln, col, path),
                                  MsvcLine(src, ln, path)}
                    => /\ errs[level].v.missing_header_cause
                            = [missing_library |-> [kind |-> "Header", name |-> path],
                               version_id |-> version_id]
                       /\ Reported(level) =>
                            report.v.source = Some(HeaderText(path, version_id))

\* A report whose winning line has the Clang shape: the path lost its quotes.
C7_Witness ==
    /\ Reported("Stderr")
    /\ Matching # {}
    /\ \E src \in Sources, ln \in LineNumbers, col \in Columns, path \in HeaderPaths :
         /\ Trim(Winner) = ClangLine(src, ln, col, path)
         /\ report.v.source = Some(HeaderText(path, version_id))

\* The source text of a Linker cause.
LinkerText(name, package) ==
    "This error likely indicates that you need to install the library that provides a shared library for "
        \o name \o " for " \o package \o " (e.g. lib" \o name \o "-dev)"

\* The linker lines of the inputs, by program and library name.
LinkerShapes ==
    {[program |-> g, name |-> n] : g \in LinkerPrograms, n \in LibraryNames \cup {"z"}}

\* For every line of the inputs, the linker shape it has, whitespace aside,
\* and the linker shapes it contains.
LinkerShapeOf ==
    [line \in StderrLines |->
        {sh \in LinkerShapes : Trim(line) = LdLine(sh.program, sh.name)}]

LinkerShapesIn ==
    [line \in StderrLines |->
        {sh \in LinkerShapes : Contains(line, LdLine(sh.program, sh.name))}]

\* A line of the window that no more recent matching line precedes in the scan.
FirstToMatch(i) == i \in LastTen /\ \A j \in Matching : j <= i

IsAlphanumeric(name) ==
    /\ Len(name) > 0
    /\ \A k \in 1..Len(name) : CharAt(name, k) \in LowerChars \cup UpperChars \cup DigitChars

PythonPackageSpecText(token, package) ==
    "This error likely indicates that " \o package \o " depends on " \o token
        \o ", but doesn't declare it as a build dependency. If " \o package
        \o " is a first-party package, consider adding " \o token
        \o " to its build-system requirements. Otherwise, install " \o token
        \o " into the environment and re-run with build isolation disabled."

\* The text the test missing_wheel_package expects.
PythonPackageText(token, package) ==
    "This error likely indicates that " \o package \o " depends on " \o token
        \o ", but doesn't declare it as a build dependency. If " \o package
        \o " is a first-party package, consider adding " \o token
        \o " to its " \o Backtick \o "build-system.requires" \o Backtick
        \o ". Otherwise, " \o Backtick \o "uv pip install " \o token \o Backtick
        \o " into the environment and re-run with " \o Backtick
        \o "--no-build-isolation" \o Backtick \o "."

\* The token of a PythonPackage cause: wheel for the bdist_wheel line, torch
\* for the import failure.
PythonPackageToken(level) ==
    LET lib == errs[level].v.missing_header_cause.missing_library IN
    /\ lib.name \in {"wheel", "torch"}
    /\ lib.name = "wheel" => Contains(Winner, WheelLine)
    /\ lib.name = "torch" => Contains(Winner, TorchLine)

IsPythonPackage(level) ==
    /\ Reported(level)
    /\ HasCause(errs[level].v)
    /\ errs[level].v.missing_header_cause.missing_library.kind = "PythonPackage"

\* C9 as stated: a PythonPackage cause renders as the template of the
\* specification.
C9_SpecTemplate ==
    \A level \in Levels :
        IsPythonPackage(level) =>
            /\ PythonPackageToken(level)
            /\ report.v.source
                 = Some(PythonPackageSpecText(
                          errs[level].v.missing_header_cause.missing_library.name,
                          version_id))

\* C9 amended: it renders as that template with `build-system.requires`,
\* `uv pip install {token}` and `--no-build-isolation` in place of the three
\* paraphrases.
C9_CodeTemplate ==
    \A level \in Levels :
        IsPythonPackage(level) =>
            /\ PythonPackageToken(level)
            /\ report.v.source
                 = Some(PythonPackageText(
                          errs[level].v.missing_header_cause.missing_library.name,
                          version_id))

\* A report of the torch import failure for a package other than pygraphviz.
C9_Witness ==
    /\ IsPythonPackage("Debug")
    /\ version_id = "torch-2.1.0"
    /\ report.v.source = Some(PythonPackageText("torch", version_id))

\* C10: each static is initialized at most once, holds its Regex from then
\* on, and every call that returned has the result of the same call alone.
C10_InitializedOnceAndIsolated ==
    /\ \A name \in SignatureNames :
         /\ cells[name].inits <= 1
         /\ Cardinality(cells[name].owners) <= 1
         /\ cells[name].state = "Complete" =>
              cells[name].value = Some(name) /\ cells[name].inits = 1
         /\ cells[name].state # "Complete" => cells[name].value = None
    /\ \A t \in Threads :
         calls[t].pc = "done" =>
            calls[t].result
              = Some(from_command_output(calls[t].in.message, calls[t].in.output,
                                         calls[t].level, calls[t].in.version_id))

\* Two threads, in calls on different inputs, at the same static: one runs
\* its initializer, the other waits; an earlier static is initialized.
C10_Witness ==
    \E t \in Threads, u \in Threads :
        /\ t # u
        /\ AtSignature(t) /\ calls[u].pc = calls[t].pc
        /\ cells[calls[t].pc].owners = {t}
        /\ cells["MISSING_HEADER_RE_GCC"].inits = 1
        /\ calls[t].in # calls[u].in

====
